---- MODULE Spec2Model ----
(***************************************************************************)
(* A model of the battleship rules engine: Ship (battleship/ship.py), the  *)
(* Board it is placed on (battleship/board.py, known from its callers and  *)
(* tests), and the RandomPlayer and AutomaticPlayer targeting strategies   *)
(* (battleship/player.py).                                                 *)
(*                                                                         *)
(* A cell is a pair <<x, y>>; Python's cell[0] is cell[1] here and         *)
(* Python's cell[1] is cell[2] here.                                       *)
(***************************************************************************)
EXTENDS Integers, Sequences, FiniteSets, TLC

VARIABLES
    pc,                   \* which object is alive / whose turn it is
    args,                 \* the arguments the object under test was built from
    ship,                 \* the Ship under test (SpecShip)
    board,                \* the Board under test / the opponent's Board
    tracker,              \* player.tracker
    moves,                \* AutomaticPlayer.moves
    attack_successful,    \* AutomaticPlayer.attack_successful
    ship_being_attacked,  \* AutomaticPlayer.ship_being_attacked
    call,                 \* the last call made: its name, argument and outcome
    history,              \* what select_target has returned so far (an observer)
    factory               \* the local variables of ShipFactory.generate_ships

vars == <<pc, args, ship, board, tracker, moves, attack_successful,
          ship_being_attacked, call, history, factory>>

(***************************************************************************)
(* Bounds of the model.                                                    *)
(***************************************************************************)
\* Ship coordinates of SpecShip range over 1..MaxX by 1..MaxY.
MaxX == 6
MaxY == 3
\* Ship coordinates of SpecNear range over 1..NearX by 1..NearY.
NearX == 4
NearY == 3
\* SpecBoard: the board is BoardW by BoardH, ship coordinates reach one past it.
BoardW == 4
BoardH == 1
\* SpecBoard: at most this many ships are handed to the Board constructor.
MaxShips == 2
\* SpecRandom: the RandomPlayer's board.
RandWidth == 3
RandHeight == 2
\* SpecAuto: the opponent's board is GameN by GameN and holds at most GameShips
\* ships; the game is followed for MaxMoves targets.
GameN == 3
GameShips == 2
MaxMoves == 5
\* SpecScript: the player's board is ScriptN by ScriptN and the player is
\* followed for ScriptMoves targets.
ScriptN == 2
ScriptMoves == 4
\* SpecHunt: the opponent's board is HuntN by HuntN and holds one ship of
\* HuntMinLength cells or more; the game is followed for HuntMoves targets.
HuntN == 4
HuntMinLength == 3
HuntMoves == 4
\* SpecBuild: build_ship is called on boards of up to BuildSide by BuildSide.
BuildSide == 10
\* SpecMatch: a whole match against a MatchN by MatchN board that holds
\* ships as long as the board, one in every other column or row.
MatchN == 3
\* SpecFactory: the factory's board is FactoryN by FactoryN (10 by 10 in the
\* code's default) and the default configuration asks for one ship of each
\* length 1..FactoryMaxLen (1..5 in the code).
FactoryN == 3
FactoryMaxLen == 2
\* SpecFactory: generate_ships leaves its retry loop when i reaches this
\* (1000 in the code).
RetryCeiling == 3

\* The longest ship length() accepts.
MaxShipLength == 5

\* The side of the board create_ship_from_str's converter assumes.
DefaultBoardSide == 10

(***************************************************************************)
(* Python values and call records.                                         *)
(***************************************************************************)
\* A Python int, and the class object ValueError (length() returns either).
PyInt(n) == [t |-> "int", v |-> n]

ValueErrorClass == [t |-> "ValueError", v |-> 0]

\* Python's ==, on the two kinds of value above.
PyEq(a, b) == a = b

\* A call that returned `ret`, and a call that raised `exc`.
Returned(op, arg, ret) == [op |-> op, arg |-> arg, ret |-> ret, exc |-> ""]

Raised(op, arg, exc) == [op |-> op, arg |-> arg, ret |-> FALSE, exc |-> exc]

NoCall == Returned("none", <<>>, FALSE)

\* Nothing returned yet: the number of returned calls and the cells returned.
NoHistory == [n |-> 0, cells |-> {}]

\* No generate_ships call in progress.
NoFactory == [ships |-> <<>>, todo |-> <<>>, i |-> 0, built |-> 0]

Min2(a, b) == IF a <= b THEN a ELSE b

Max2(a, b) == IF a >= b THEN a ELSE b

SetMax(S) == CHOOSE m \in S : \A n \in S : n <= m

SetMin(S) == CHOOSE m \in S : \A n \in S : m <= n

Abs(n) == IF n < 0 THEN -n ELSE n

Last(s) == s[Len(s)]

Grid(w, h) == (1..w) \X (1..h)

(***************************************************************************)
(* Ship.                                                                   *)
(***************************************************************************)
IsVertical(s) == s.x_start = s.x_end

IsHorizontal(s) == s.y_start = s.y_end

GetCells(s) ==
    IF IsVertical(s)
    THEN {<<s.x_start, y>> : y \in s.y_start..s.y_end}
    ELSE {<<x, s.y_start>> : x \in s.x_start..s.x_end}

\* The corners as __init__ orders them.
Corners(start, end) ==
    [x_start |-> Min2(start[1], end[1]), x_end |-> Max2(start[1], end[1]),
     y_start |-> Min2(start[2], end[2]), y_end |-> Max2(start[2], end[2])]

\* Whether Ship.__init__ raises ValueError.
ShipRaises(start, end, should_validate) ==
    /\ should_validate
    /\ ~IsHorizontal(Corners(start, end))
    /\ ~IsVertical(Corners(start, end))

\* The object Ship.__init__ leaves when it does not raise.
NewShip(start, end) ==
    LET c == Corners(start, end)
    IN  [x_start |-> c.x_start, x_end |-> c.x_end,
         y_start |-> c.y_start, y_end |-> c.y_end,
         cells |-> GetCells(c), damaged_cells |-> {}]

\* No Ship object: the constructor raised, or the specification has none.
NoShip ==
    [x_start |-> 0, x_end |-> 0, y_start |-> 0, y_end |-> 0,
     cells |-> {}, damaged_cells |-> {}]

\* length() returns the class ValueError (it raises nothing) for a long ship.
Length(s) ==
    LET x_domain == SetMax({c[1] : c \in s.cells}) - SetMin({c[1] : c \in s.cells}) + 1
        y_domain == SetMax({c[2] : c \in s.cells}) - SetMin({c[2] : c \in s.cells}) + 1
        length == Max2(x_domain, y_domain)
    IN  IF length > MaxShipLength THEN ValueErrorClass ELSE PyInt(length)

IsOccupyingCell(s, cell) == cell \in s.cells

ReceiveDamageMutant(s, cell) ==
    IF cell \in s.cells
    THEN [ret |-> cell \notin s.damaged_cells,
          ship |-> [s EXCEPT !.damaged_cells = @ \cup {cell}]]
    ELSE [ret |-> FALSE, ship |-> s]

\* A receive_damage that records the attacked cell before looking at it.
ReceiveDamageAnyCell(s, cell) ==
    [ret |-> cell \in s.cells, ship |-> [s EXCEPT !.damaged_cells = @ \cup {cell}]]

\* receive_damage: the value returned and the ship afterwards.
ReceiveDamage(s, cell) ==
    IF cell \in s.cells
    THEN [ret |-> TRUE, ship |-> [s EXCEPT !.damaged_cells = @ \cup {cell}]]
    ELSE [ret |-> FALSE, ship |-> s]

CountDamagedCells(s) == Cardinality(s.damaged_cells)

HasSunkMutant(s) == PyEq(Length(s), PyInt(CountDamagedCells(s) + 1))

HasSunk(s) == PyEq(Length(s), PyInt(CountDamagedCells(s)))

IsNearCellMutant(s, cell) ==
    /\ s.x_start - 1 <= cell[1] /\ cell[1] <= s.x_end + 1
    /\ s.y_start <= cell[2] /\ cell[2] <= s.y_end

IsNearCell(s, cell) ==
    /\ s.x_start - 1 <= cell[1] /\ cell[1] <= s.x_end + 1
    /\ s.y_start - 1 <= cell[2] /\ cell[2] <= s.y_end + 1

IsNearShipMutant(s, other_ship) ==
    \E other_ship_cell \in other_ship.cells : IsOccupyingCell(s, other_ship_cell)

IsNearShip(s, other_ship) ==
    \E other_ship_cell \in other_ship.cells : IsNearCell(s, other_ship_cell)

(***************************************************************************)
(* SpecShip: one Ship, built from any two corners of the grid, with or     *)
(* without validation, and then damaged and queried in any order.          *)
(***************************************************************************)
ShipGrid == Grid(MaxX, MaxY)

\* The ships Ship(start, end) builds from corners of `cells` (validation on).
ShipsOn(cells) ==
    {NewShip(s, e) : <<s, e>> \in {p \in cells \X cells : ~ShipRaises(p[1], p[2], TRUE)}}

\* Ship(start, end, should_validate) for any two corners of `grid`.
InitShipOn(grid) ==
    /\ args \in [start : grid, end : grid, should_validate : BOOLEAN]
    /\ IF ShipRaises(args.start, args.end, args.should_validate)
       THEN /\ pc = "ctor_raised"
            /\ ship = NoShip
            /\ call = Raised("Ship", <<>>, "ValueError")
       ELSE /\ pc = "ship"
            /\ ship = NewShip(args.start, args.end)
            /\ call = Returned("Ship", <<>>, FALSE)
    /\ board = <<>>
    /\ tracker = {}
    /\ moves = <<>>
    /\ attack_successful = FALSE
    /\ ship_being_attacked = <<>>
    /\ history = NoHistory
    /\ factory = NoFactory

InitShip == InitShipOn(ShipGrid)

ShipFrame == UNCHANGED <<pc, args, board, tracker, moves, attack_successful,
                         ship_being_attacked, history, factory>>

DoReceiveDamage(cell) ==
    /\ pc = "ship"
    /\ ship' = ReceiveDamage(ship, cell).ship
    /\ call' = Returned("receive_damage", cell, ReceiveDamage(ship, cell).ret)
    /\ ShipFrame

DoLength ==
    /\ pc = "ship"
    /\ call' = Returned("length", <<>>, Length(ship))
    /\ UNCHANGED ship
    /\ ShipFrame

DoHasSunk ==
    /\ pc = "ship"
    /\ call' = Returned("has_sunk", <<>>, HasSunk(ship))
    /\ UNCHANGED ship
    /\ ShipFrame

DoIsNearCell(cell) ==
    /\ pc = "ship"
    /\ call' = Returned("is_near_cell", cell, IsNearCell(ship, cell))
    /\ UNCHANGED ship
    /\ ShipFrame

DoIsNearShip(other_ship) ==
    /\ pc = "ship"
    /\ call' = Returned("is_near_ship", other_ship, IsNearShip(ship, other_ship))
    /\ UNCHANGED ship
    /\ ShipFrame

NextShip ==
    \/ \E cell \in ShipGrid : DoReceiveDamage(cell)
    \/ DoLength
    \/ DoHasSunk

SpecShip == InitShip /\ [][NextShip]_vars

(***************************************************************************)
(* SpecNear: the same Ship, asked is_near_cell and is_near_ship (neither   *)
(* reads or writes the damage).                                            *)
(***************************************************************************)
NearGrid == Grid(NearX, NearY)

\* Every straight ship of the grid: the other ships is_near_ship is asked about.
OtherShips == ShipsOn(NearGrid)

InitNear == InitShipOn(NearGrid)

NextNear ==
    \/ \E cell \in NearGrid : DoIsNearCell(cell)
    \/ \E other_ship \in OtherShips : DoIsNearShip(other_ship)

SpecNear == InitNear /\ [][NextNear]_vars

(***************************************************************************)
(* Claims about Ship.                                                      *)
(***************************************************************************)
\* The two corners given to the constructor lie on one horizontal or one
\* vertical line.
Aligned == args.start[1] = args.end[1] \/ args.start[2] = args.end[2]

\* The integer cells between the two corners given to the constructor.
Segment ==
    {c \in Grid(MaxX, MaxY) :
        /\ Min2(args.start[1], args.end[1]) <= c[1]
        /\ c[1] <= Max2(args.start[1], args.end[1])
        /\ Min2(args.start[2], args.end[2]) <= c[2]
        /\ c[2] <= Max2(args.start[2], args.end[2])}

Chebyshev(a, b) == Max2(Abs(a[1] - b[1]), Abs(a[2] - b[2]))

\* C3: for every pair of corners, in either order, on one horizontal or one
\* vertical line, the occupied cells contain both corners, are exactly the
\* integer cells between them, and are as many as length() returns.
C3_CellsMatchLength ==
    (pc = "ship" /\ Aligned) =>
        /\ args.start \in ship.cells
        /\ args.end \in ship.cells
        /\ ship.cells = Segment
        /\ PyEq(Length(ship), PyInt(Cardinality(ship.cells)))

\* C4: receive_damage is idempotent: a second call with the same occupied
\* cell returns True again and leaves the damaged cells (and so their
\* count) as the first call left them.
C4_ReceiveDamageIdempotent ==
    [][(/\ call.op = "receive_damage"
        /\ call.ret = TRUE
        /\ call'.op = "receive_damage"
        /\ call'.arg = call.arg)
       => (/\ call'.ret = TRUE
           /\ ship'.damaged_cells = ship.damaged_cells
           /\ CountDamagedCells(ship') = CountDamagedCells(ship))]_vars

\* C4's case: an occupied cell has been damaged, among others, and the call
\* returned True (a repeated call ends in this same state).
C4_Witness ==
    /\ call.op = "receive_damage"
    /\ call.ret = TRUE
    /\ call.arg \in ship.damaged_cells
    /\ CountDamagedCells(ship) >= 2

\* C5: for every ship on a horizontal or vertical corner pair, has_sunk() is
\* true exactly when as many cells are damaged as the ship occupies, and it
\* is true once every occupied cell has received damage.
C5_SunkIffAllDamaged ==
    (pc = "ship" /\ Aligned) =>
        /\ HasSunk(ship) <=> (CountDamagedCells(ship) = Cardinality(ship.cells))
        /\ (ship.damaged_cells = ship.cells) => HasSunk(ship)

\* C6: for a ship whose corners span more than 5 cells, length() fails with
\* an error: it never returns normally.
C6_LongLengthRaises ==
    (call.op = "length" /\ Cardinality(ship.cells) > MaxShipLength) =>
        call.exc # ""

\* C7 as stated, for every ship the constructor builds: is_near_cell(cell)
\* is true exactly when cell is at Chebyshev distance at most 1 from some
\* occupied cell, and is_near_ship(other) exactly when some occupied cell of
\* other satisfies is_near_cell.
C7_NearIsChebyshevAnyShip ==
    /\ call.op = "is_near_cell" =>
        (call.ret <=> \E c \in ship.cells : Chebyshev(c, call.arg) <= 1)
    /\ call.op = "is_near_ship" =>
        (call.ret <=> \E oc \in call.arg.cells : IsNearCell(ship, oc))

\* C7, amended: the same, for a ship that is horizontal or vertical (every
\* ship built with validation on).
C7_NearIsChebyshev ==
    (IsHorizontal(ship) \/ IsVertical(ship)) => C7_NearIsChebyshevAnyShip

\* C7's case: a cell diagonal to the end of a straight ship is near it, and
\* so is a ship that only touches it at a corner.
C7_Witness ==
    /\ IsHorizontal(ship) \/ IsVertical(ship)
    /\ call.op = "is_near_ship"
    /\ call.ret = TRUE
    /\ call.arg.x_start = ship.x_end + 1
    /\ call.arg.y_start = ship.y_end + 1

(***************************************************************************)
(* Board (battleship/board.py): built from a list of ships, it checks that *)
(* they are within bounds and not near one another, resolves attacks and   *)
(* says whether all its ships have sunk.                                   *)
(***************************************************************************)
InBounds(cell, width, height) ==
    /\ 1 <= cell[1] /\ cell[1] <= width
    /\ 1 <= cell[2] /\ cell[2] <= height

AreShipsWithinBoundsMutant(ships, width, height) ==
    \A c \in ships[1].cells : InBounds(c, width, height)

AreShipsWithinBounds(ships, width, height) ==
    \A i \in 1..Len(ships) : \A c \in ships[i].cells : InBounds(c, width, height)

AreShipsTooClose(ships) ==
    \E i, j \in 1..Len(ships) : i # j /\ IsNearShip(ships[i], ships[j])

\* Whether Board(ships) raises ValueError.
BoardRaises(ships, width, height) ==
    \/ ~AreShipsWithinBounds(ships, width, height)
    \/ AreShipsTooClose(ships)

NewBoard(ships, width, height) ==
    [width |-> width, height |-> height, ships |-> ships]

\* No Board object: the constructor raised.
NoBoard == [width |-> 0, height |-> 0, ships |-> <<>>]

\* The ships are scanned in storage order from the i-th; the first one the
\* cell damages ends the scan.
RECURSIVE AttackFrom(_, _, _)
AttackFrom(b, cell, i) ==
    IF i > Len(b.ships)
    THEN [hit |-> FALSE, sunk |-> FALSE, board |-> b]
    ELSE LET r == ReceiveDamage(b.ships[i], cell)
         IN  IF r.ret
             THEN [hit |-> TRUE, sunk |-> HasSunk(r.ship),
                   board |-> [b EXCEPT !.ships[i] = r.ship]]
             ELSE AttackFrom(b, cell, i + 1)

IsAttackedAt(b, cell) == AttackFrom(b, cell, 1)

HaveAllShipsSunk(b) == \A i \in 1..Len(b.ships) : HasSunk(b.ships[i])

\* Player.has_lost, of the player who owns board b.
HasLost(b) == HaveAllShipsSunk(b)

(***************************************************************************)
(* SpecBoard: a Board built from any list of up to MaxShips ships whose    *)
(* corners may lie one cell past the board, then attacked in any order.    *)
(***************************************************************************)
BoardGrid == Grid(BoardW, BoardH)

InitBoard ==
    /\ \E n \in 1..MaxShips :
        \E ships \in [1..n -> ShipsOn(Grid(BoardW + 1, BoardH + 1))] :
            args = [ships |-> ships]
    /\ IF BoardRaises(args.ships, BoardW, BoardH)
       THEN /\ pc = "ctor_raised"
            /\ board = NoBoard
            /\ call = Raised("Board", <<>>, "ValueError")
       ELSE /\ pc = "board"
            /\ board = NewBoard(args.ships, BoardW, BoardH)
            /\ call = Returned("Board", <<>>, FALSE)
    /\ ship = NoShip
    /\ tracker = {}
    /\ moves = <<>>
    /\ attack_successful = FALSE
    /\ ship_being_attacked = <<>>
    /\ history = NoHistory
    /\ factory = NoFactory

BoardFrame == UNCHANGED <<pc, args, ship, tracker, moves, attack_successful,
                          ship_being_attacked, history, factory>>

DoIsAttackedAt(cell) ==
    /\ pc = "board"
    /\ board' = IsAttackedAt(board, cell).board
    /\ call' = Returned("is_attacked_at", <<>>,
                        <<IsAttackedAt(board, cell).hit, IsAttackedAt(board, cell).sunk>>)
    /\ BoardFrame

\* for ship in board.ships: for cell in ship.get_cells():
\*     ship.receive_damage(cell)
DoShipReceiveDamage(i, cell) ==
    /\ pc = "board"
    /\ i \in 1..Len(board.ships)
    /\ cell \in GetCells(board.ships[i])
    /\ board' = [board EXCEPT !.ships[i] = ReceiveDamage(board.ships[i], cell).ship]
    /\ call' = Returned("receive_damage", <<>>, ReceiveDamage(board.ships[i], cell).ret)
    /\ BoardFrame

DoHaveAllShipsSunk ==
    /\ pc = "board"
    /\ call' = Returned("have_all_ships_sunk", <<>>, HaveAllShipsSunk(board))
    /\ UNCHANGED board
    /\ BoardFrame

DoHasLost ==
    /\ pc = "board"
    /\ call' = Returned("has_lost", <<>>, HasLost(board))
    /\ UNCHANGED board
    /\ BoardFrame

NextBoard ==
    \/ \E cell \in BoardGrid : DoIsAttackedAt(cell)
    \/ \E i \in 1..MaxShips, cell \in BoardGrid : DoShipReceiveDamage(i, cell)
    \/ DoHaveAllShipsSunk
    \/ DoHasLost

SpecBoard == InitBoard /\ [][NextBoard]_vars

(***************************************************************************)
(* Claims about Board.                                                     *)
(***************************************************************************)
\* The i-th ship handed to the constructor has a cell off the board.
OffBoard(i) == \E c \in args.ships[i].cells : c \notin BoardGrid

\* The i-th and j-th ships handed to the constructor overlap or have cells
\* within Chebyshev distance 1 of each other.
Near(i, j) ==
    \E a \in args.ships[i].cells, b \in args.ships[j].cells : Chebyshev(a, b) <= 1

ConstructionFailed ==
    /\ pc = "ctor_raised"
    /\ call.op = "Board"
    /\ call.exc # ""
    /\ board = NoBoard

\* C8: Board construction fails with an error, returning no board, whenever
\* any ship of the list, at any position, has an occupied cell outside
\* [1,width]x[1,height].
C8_OutOfBoundsRejected ==
    (\E i \in 1..Len(args.ships) : OffBoard(i)) => ConstructionFailed

\* C8's case: the only fault of the list is that its last ship leaves the
\* board, and construction failed.
C8_Witness ==
    /\ ConstructionFailed
    /\ Len(args.ships) = 2
    /\ ~OffBoard(1)
    /\ OffBoard(2)
    /\ ~Near(1, 2)

\* C9: Board construction fails with an error, returning no board, whenever
\* two distinct ships of the list overlap or are near each other, in
\* whichever order they come.
C9_NearShipsRejected ==
    (\E i, j \in 1..Len(args.ships) : i # j /\ Near(i, j)) => ConstructionFailed

\* C9's case: both ships are on the board and share no cell, the second
\* touches the first, and construction failed.
C9_Witness ==
    /\ ConstructionFailed
    /\ Len(args.ships) = 2
    /\ ~OffBoard(1)
    /\ ~OffBoard(2)
    /\ args.ships[1].cells \cap args.ships[2].cells = {}
    /\ Near(1, 2)

\* A valid board: ships horizontal or vertical, of length 1..5, in bounds,
\* pairwise not near.
ValidBoard(b) ==
    /\ \A i \in 1..Len(b.ships) :
        /\ IsHorizontal(b.ships[i]) \/ IsVertical(b.ships[i])
        /\ Cardinality(b.ships[i].cells) \in 1..MaxShipLength
        /\ \A c \in b.ships[i].cells : InBounds(c, b.width, b.height)
    /\ \A i, j \in 1..Len(b.ships) :
        i # j => \A x \in b.ships[i].cells, y \in b.ships[j].cells : Chebyshev(x, y) > 1

AllCellsDamaged(b) ==
    \A i \in 1..Len(b.ships) : b.ships[i].damaged_cells = b.ships[i].cells

\* C10: on a valid board, once every occupied cell of every ship has
\* received damage, have_all_ships_sunk() and the owner's has_lost() are
\* true; and has_lost() is true only if every ship of the board has sunk
\* (all its cells are damaged).
C10_BarrageSinksAll ==
    (pc = "board" /\ ValidBoard(board)) =>
        /\ AllCellsDamaged(board) => (HaveAllShipsSunk(board) /\ HasLost(board))
        /\ HasLost(board) => AllCellsDamaged(board)
        /\ call.op = "has_lost" => (call.ret <=> AllCellsDamaged(board))
        /\ call.op = "have_all_ships_sunk" => (call.ret <=> AllCellsDamaged(board))

\* C10's case: two ships, every cell of both damaged, and has_lost() has
\* returned True.
C10_Witness ==
    /\ pc = "board"
    /\ ValidBoard(board)
    /\ Len(board.ships) = 2
    /\ AllCellsDamaged(board)
    /\ call.op = "has_lost"
    /\ call.ret = TRUE

(***************************************************************************)
(* RandomPlayer.                                                           *)
(***************************************************************************)
\* A sampler whose upper limit for x is one short.
GetRandomCoordinatesMutant(width, height) == (1..(width - 1)) \X (1..height)

\* get_random_coordinates: the cells random.randint can produce.
GetRandomCoordinates(width, height) == (1..width) \X (1..height)

HasBeenAttackedMutant(cell, trk) == FALSE

\* generate_random_target's loop condition for the cell just sampled.
HasBeenAttacked(cell, trk) == cell \in trk

(***************************************************************************)
(* SpecRandom: a RandomPlayer on a RandWidth by RandHeight board, asked    *)
(* for targets again and again.  One step is one iteration of the sampling *)
(* loop of generate_random_target: it samples again, or select_target      *)
(* returns.                                                                *)
(***************************************************************************)
InitRandom ==
    /\ pc = "random"
    /\ args = [width |-> RandWidth, height |-> RandHeight]
    /\ ship = NoShip
    /\ board = NoBoard
    /\ tracker = {}
    /\ moves = <<>>
    /\ attack_successful = FALSE
    /\ ship_being_attacked = <<>>
    /\ call = Returned("RandomPlayer", <<>>, FALSE)
    /\ history = NoHistory
    /\ factory = NoFactory

\* The sampled cell has been attacked: the loop goes round again.
RandomSampleAgain(random_cell) ==
    /\ pc = "random"
    /\ HasBeenAttacked(random_cell, tracker)
    /\ UNCHANGED vars

\* The sampled cell is new: select_target tracks and returns it.
RandomSelectTarget(random_cell) ==
    /\ pc = "random"
    /\ ~HasBeenAttacked(random_cell, tracker)
    /\ tracker' = tracker \cup {random_cell}
    /\ call' = Returned("select_target", <<>>, random_cell)
    /\ history' = [n |-> history.n + 1, cells |-> history.cells \cup {random_cell}]
    /\ UNCHANGED <<pc, args, ship, board, moves, attack_successful, ship_being_attacked,
                   factory>>

NextRandom ==
    \/ \E random_cell \in GetRandomCoordinates(args.width, args.height) :
            RandomSampleAgain(random_cell)
    \/ \E random_cell \in GetRandomCoordinates(args.width, args.height) :
            RandomSelectTarget(random_cell)

SpecRandom == InitRandom /\ [][NextRandom]_vars

\* C2: every cell RandomPlayer.select_target returns lies in
\* [1,width]x[1,height] and differs from every cell returned earlier, and
\* after n returned calls tracker is exactly the set of the n returned cells.
C2_RandomNeverRepeats ==
    /\ history.cells \subseteq Grid(RandWidth, RandHeight)
    /\ Cardinality(history.cells) = history.n
    /\ tracker = history.cells
    /\ call.op = "select_target" => call.ret \in tracker

\* C2's case: every cell of the board has been returned, once each.
C2_Witness ==
    /\ call.op = "select_target"
    /\ history.n = RandWidth * RandHeight
    /\ tracker = Grid(RandWidth, RandHeight)

(***************************************************************************)
(* AutomaticPlayer.  width and height are those of the player's own board  *)
(* (self.board), which the methods below read as the board's extent.       *)
(***************************************************************************)
IsValidTargetMutant(cell, width, height) ==
    LET x == cell[2]
        y == cell[1]
    IN  0 <= x /\ x <= width /\ 0 <= y /\ y <= height

\* is_valid_target reads cell[1] as x and cell[0] as y.
IsValidTarget(cell, width, height) ==
    LET x == cell[2]
        y == cell[1]
    IN  1 <= x /\ x <= width /\ 1 <= y /\ y <= height

CellUnvisited(cell, trk) == cell \notin trk

Range(seq) == {seq[i] : i \in 1..Len(seq)}

\* A surrounding that reaches two cells out instead of one.
AllSurroundingCellsWide(cell, trk, width, height) ==
    LET x == cell[2]
        y == cell[1]
        cells == <<<<y - 2, x - 2>>, <<y - 2, x>>, <<y - 2, x + 2>>, <<y, x - 2>>,
                   <<y, x + 2>>, <<y + 2, x - 2>>, <<y + 2, x>>, <<y + 2, x + 2>>>>
        Valid(c) == IsValidTarget(c, width, height)
        Unvisited(c) == CellUnvisited(c, trk)
    IN  SelectSeq(SelectSeq(cells, Valid), Unvisited)

AllSurroundingCellsMutant(cell, trk, width, height) ==
    LET x == cell[2]
        y == cell[1]
        cells == <<<<y - 1, x>>, <<y, x - 1>>, <<y, x + 1>>, <<y + 1, x>>>>
        Valid(c) == IsValidTarget(c, width, height)
        Unvisited(c) == CellUnvisited(c, trk)
    IN  SelectSeq(SelectSeq(cells, Valid), Unvisited)

AllSurroundingCells(cell, trk, width, height) ==
    LET x == cell[2]
        y == cell[1]
        top_left == <<y - 1, x - 1>>
        top_mid == <<y - 1, x>>
        top_right == <<y - 1, x + 1>>
        left == <<y, x - 1>>
        right == <<y, x + 1>>
        bot_left == <<y + 1, x - 1>>
        bot_mid == <<y + 1, x>>
        bot_right == <<y + 1, x + 1>>
        cells == <<top_left, top_mid, top_right, left, right, bot_left, bot_mid, bot_right>>
        Valid(c) == IsValidTarget(c, width, height)
        Unvisited(c) == CellUnvisited(c, trk)
    IN  SelectSeq(SelectSeq(cells, Valid), Unvisited)

\* receive_result's loop over ship_being_attacked, from its i-th cell on:
\* the tracker it leaves.
RECURSIVE MarkSurroundings(_, _, _, _, _)
MarkSurroundings(hits, i, trk, width, height) ==
    IF i > Len(hits)
    THEN trk
    ELSE MarkSurroundings(hits, i + 1,
             trk \cup Range(AllSurroundingCells(hits[i], trk, width, height)),
             width, height)

GetAdjacentCellsMutant(cell, trk, width, height) ==
    LET x == cell[2]
        y == cell[1]
        potential_targets == <<<<y, x - 1>>, <<y + 1, x + 1>>, <<y - 1, x>>, <<y, x + 1>>>>
        Valid(c) == IsValidTarget(c, width, height)
        Unvisited(c) == CellUnvisited(c, trk)
    IN  SelectSeq(SelectSeq(potential_targets, Unvisited), Valid)

GetAdjacentCells(cell, trk, width, height) ==
    LET x_min == 1
        y_min == 1
        x_max == width
        y_max == height
        x == cell[2]
        y == cell[1]
        left == IF x - 1 >= x_min THEN <<y, x - 1>> ELSE <<y, x>>
        down == IF x + 1 <= x_max THEN <<y, x + 1>> ELSE <<y, x>>
        up == IF y - 1 >= y_min THEN <<y - 1, x>> ELSE <<y, x>>
        right == IF y + 1 <= y_max THEN <<y + 1, x>> ELSE <<y, x>>
        potential_targets == <<left, right, up, down>>
        Valid(c) == IsValidTarget(c, width, height)
        Unvisited(c) == CellUnvisited(c, trk)
    IN  SelectSeq(SelectSeq(potential_targets, Unvisited), Valid)

OrientationMutant(hits) ==
    IF hits[1][2] = hits[2][2] THEN "vertical" ELSE "horizontal"

\* The orientation select_target infers from the first two recorded hits.
Orientation(hits) ==
    IF hits[1][1] = hits[2][1] THEN "vertical" ELSE "horizontal"

TrackTargetMutant(hits, trk, width, height) ==
    LET first == hits[2]
        last == hits[Len(hits)]
        Ok(c) == CellUnvisited(c, trk) /\ IsValidTarget(c, width, height)
    IN  IF Orientation(hits) = "horizontal"
        THEN IF Ok(<<last[1] - 1, last[2]>>) THEN <<last[1] - 1, last[2]>>
             ELSE IF Ok(<<last[1] + 1, last[2]>>) THEN <<last[1] + 1, last[2]>>
             ELSE IF Ok(<<first[1] + 1, first[2]>>) THEN <<first[1] + 1, first[2]>>
             ELSE <<first[1] - 1, first[2]>>
        ELSE IF Ok(<<last[1], last[2] - 1>>) THEN <<last[1], last[2] - 1>>
             ELSE IF Ok(<<last[1], last[2] + 1>>) THEN <<last[1], last[2] + 1>>
             ELSE IF Ok(<<first[1], first[2] - 1>>) THEN <<first[1], first[2] - 1>>
             ELSE <<first[1], first[2] + 1>>

\* The target select_target returns with two or more recorded hits.
TrackTarget(hits, trk, width, height) ==
    LET first == hits[1]
        last == hits[Len(hits)]
        Ok(c) == CellUnvisited(c, trk) /\ IsValidTarget(c, width, height)
    IN  IF Orientation(hits) = "horizontal"
        THEN IF Ok(<<last[1] - 1, last[2]>>) THEN <<last[1] - 1, last[2]>>
             ELSE IF Ok(<<last[1] + 1, last[2]>>) THEN <<last[1] + 1, last[2]>>
             ELSE IF Ok(<<first[1] + 1, first[2]>>) THEN <<first[1] + 1, first[2]>>
             ELSE <<first[1] - 1, first[2]>>
        ELSE IF Ok(<<last[1], last[2] - 1>>) THEN <<last[1], last[2] - 1>>
             ELSE IF Ok(<<last[1], last[2] + 1>>) THEN <<last[1], last[2] + 1>>
             ELSE IF Ok(<<first[1], first[2] - 1>>) THEN <<first[1], first[2] - 1>>
             ELSE <<first[1], first[2] + 1>>

\* How many targets the player is followed for: MaxMoves against a board
\* (HuntMoves against the larger board of SpecHunt), ScriptMoves when the
\* results are scripted, and as many as the specification says when it
\* says (a match played to its end).
MoveCap ==
    IF "targets" \in DOMAIN args THEN args.targets
    ELSE IF board = NoBoard THEN ScriptMoves
    ELSE IF board.width > GameN THEN HuntMoves
    ELSE MaxMoves

EmitMutant(target_cell) ==
    /\ tracker' = tracker \cup {target_cell}
    /\ moves' = <<target_cell>> \o moves
    /\ call' = Returned("select_target", tracker, target_cell)
    /\ pc' = "result"
    /\ UNCHANGED <<args, ship, board, attack_successful, ship_being_attacked, history,
                   factory>>

\* The end of every branch of select_target: track, record and return the cell.
Emit(target_cell) ==
    /\ tracker' = tracker \cup {target_cell}
    /\ moves' = Append(moves, target_cell)
    /\ call' = Returned("select_target", tracker, target_cell)
    /\ pc' = "result"
    /\ UNCHANGED <<args, ship, board, attack_successful, ship_being_attacked, history,
                   factory>>

\* No ship under attack: one iteration of generate_random_target's loop that
\* samples an attacked cell, so the loop goes round again.
SearchSampleAgain(random_cell) ==
    /\ pc = "select"
    /\ Len(moves) < MoveCap
    /\ Len(ship_being_attacked) = 0
    /\ HasBeenAttacked(random_cell, tracker)
    /\ UNCHANGED vars

\* No ship under attack: the loop samples a new cell.
SelectSearch(random_cell) ==
    /\ pc = "select"
    /\ Len(moves) < MoveCap
    /\ Len(ship_being_attacked) = 0
    /\ ~HasBeenAttacked(random_cell, tracker)
    /\ Emit(random_cell)

\* One recorded hit: random.choice among the adjacent cells, which raises
\* IndexError when there are none.
SelectProbe ==
    /\ pc = "select"
    /\ Len(moves) < MoveCap
    /\ Len(ship_being_attacked) = 1
    /\ LET potential_targets ==
               GetAdjacentCells(ship_being_attacked[1], tracker, args.width, args.height)
       IN  IF potential_targets = <<>>
           THEN /\ pc' = "raised"
                /\ call' = Raised("select_target", tracker, "IndexError")
                /\ UNCHANGED <<args, ship, board, tracker, moves, attack_successful,
                               ship_being_attacked, history, factory>>
           ELSE \E target_cell \in Range(potential_targets) : Emit(target_cell)

\* Two or more recorded hits.
SelectTrack ==
    /\ pc = "select"
    /\ Len(moves) < MoveCap
    /\ Len(ship_being_attacked) > 1
    /\ Emit(TrackTarget(ship_being_attacked, tracker, args.width, args.height))

ReceiveResultMutant(is_ship_hit, has_ship_sunk) ==
    LET cleared == IF has_ship_sunk THEN <<>> ELSE ship_being_attacked
    IN  /\ attack_successful' = is_ship_hit
        /\ tracker' = IF has_ship_sunk
                      THEN MarkSurroundings(ship_being_attacked, 1, tracker,
                                            args.width, args.height)
                      ELSE tracker
        /\ ship_being_attacked' = IF is_ship_hit
                                  THEN Append(cleared, Last(moves))
                                  ELSE cleared
        /\ call' = Returned("receive_result", <<is_ship_hit, has_ship_sunk>>, FALSE)
        /\ UNCHANGED <<args, ship, moves, history, factory>>

\* A receive_result that records a hit only when the previous attack was
\* a hit too.
ReceiveResultAfterHit(is_ship_hit, has_ship_sunk) ==
    LET hits == IF is_ship_hit /\ (attack_successful \/ ship_being_attacked = <<>>)
                THEN Append(ship_being_attacked, Last(moves))
                ELSE ship_being_attacked
    IN  /\ attack_successful' = is_ship_hit
        /\ IF has_ship_sunk
           THEN /\ tracker' = MarkSurroundings(hits, 1, tracker, args.width, args.height)
                /\ ship_being_attacked' = <<>>
           ELSE /\ tracker' = tracker
                /\ ship_being_attacked' = hits
        /\ call' = Returned("receive_result", <<is_ship_hit, has_ship_sunk>>, FALSE)
        /\ UNCHANGED <<args, ship, moves, history, factory>>

\* receive_result(is_ship_hit, has_ship_sunk).
ReceiveResult(is_ship_hit, has_ship_sunk) ==
    LET hits == IF is_ship_hit
                THEN Append(ship_being_attacked, Last(moves))
                ELSE ship_being_attacked
    IN  /\ attack_successful' = is_ship_hit
        /\ IF has_ship_sunk
           THEN /\ tracker' = MarkSurroundings(hits, 1, tracker, args.width, args.height)
                /\ ship_being_attacked' = <<>>
           ELSE /\ tracker' = tracker
                /\ ship_being_attacked' = hits
        /\ call' = Returned("receive_result", <<is_ship_hit, has_ship_sunk>>, FALSE)
        /\ UNCHANGED <<args, ship, moves, history, factory>>

\* The rest of the turn: the opponent's board resolves the attack at the
\* cell just returned and the player is told the outcome.
Feedback ==
    /\ pc = "result"
    /\ LET r == IsAttackedAt(board, Last(moves))
       IN  /\ board' = r.board
           /\ ReceiveResult(r.hit, r.sunk)
    /\ pc' = "select"

(***************************************************************************)
(* SpecAuto: an AutomaticPlayer attacks a valid GameN by GameN board of up *)
(* to GameShips ships and is told the truth after every target.            *)
(***************************************************************************)
GameGrid == Grid(GameN, GameN)

GameShipsOn == ShipsOn(GameGrid)

InitAuto ==
    /\ \E n \in 1..GameShips :
        \E ships \in [1..n -> GameShipsOn] :
            /\ ~BoardRaises(ships, GameN, GameN)
            /\ board = NewBoard(ships, GameN, GameN)
    /\ pc = "select"
    /\ args = [width |-> GameN, height |-> GameN]
    /\ ship = NoShip
    /\ tracker = {}
    /\ moves = <<>>
    /\ attack_successful = FALSE
    /\ ship_being_attacked = <<>>
    /\ call = Returned("AutomaticPlayer", <<>>, FALSE)
    /\ history = NoHistory
    /\ factory = NoFactory

NextAuto ==
    \/ \E random_cell \in GetRandomCoordinates(args.width, args.height) :
            SearchSampleAgain(random_cell)
    \/ \E random_cell \in GetRandomCoordinates(args.width, args.height) :
            SelectSearch(random_cell)
    \/ SelectProbe
    \/ SelectTrack
    \/ Feedback

SpecAuto == InitAuto /\ [][NextAuto]_vars

\* No cell occurs twice in the sequence.
NoRepeats(seq) == \A i, j \in 1..Len(seq) : i # j => seq[i] # seq[j]

\* C1: against a valid square board and truthful results, every cell
\* select_target returns is inside the board and was not in tracker before
\* the call (the call record keeps that tracker), so no cell is targeted
\* twice, and select_target never raises.
C1_TargetsAreFresh ==
    /\ pc # "raised"
    /\ call.exc = ""
    /\ call.op = "select_target" =>
        /\ call.ret \in GameGrid
        /\ call.ret \notin call.arg
    /\ Range(moves) \subseteq GameGrid
    /\ NoRepeats(moves)

\* C1's case: with a ship sunk and its surroundings tracked, a second ship
\* has been hit twice and select_target has returned a target along it.
C1_Witness ==
    /\ call.op = "select_target"
    /\ Len(ship_being_attacked) >= 2
    /\ \E i \in 1..Len(board.ships) : HasSunk(board.ships[i])
    /\ ValidBoard(board)

(***************************************************************************)
(* CellConverter (battleship/convert.py), known from its callers: to_str   *)
(* writes a cell as a column letter and a row number, from_str reads such  *)
(* a label back and fails on a letter or number outside its board.         *)
(***************************************************************************)
Letters ==
    <<"A", "B", "C", "D", "E", "F", "G", "H", "I", "J", "K", "L", "M",
      "N", "O", "P", "Q", "R", "S", "T", "U", "V", "W", "X", "Y", "Z">>

ToStr(cell) ==
    [letter |-> IF cell[1] \in 1..Len(Letters) THEN Letters[cell[1]] ELSE "?",
     number |-> cell[2]]

FromStrRaises(label, board_size) ==
    \/ ~\E x \in 1..board_size[1] : Letters[x] = label.letter
    \/ label.number \notin 1..board_size[2]

FromStr(label, board_size) ==
    <<CHOOSE x \in 1..board_size[1] : Letters[x] = label.letter, label.number>>

(***************************************************************************)
(* ShipFactory.                                                            *)
(***************************************************************************)
\* The outcome of a call that builds a Ship: the ship, or an exception.
Built(s) == [raised |-> FALSE, ship |-> s]

BuildRaised == [raised |-> TRUE, ship |-> NoShip]

\* create_ship_from_str(start, end): board_size keeps its default.
CreateShipFromStr(start, end) ==
    LET board_size == <<DefaultBoardSide, DefaultBoardSide>>
    IN  IF FromStrRaises(start, board_size) \/ FromStrRaises(end, board_size)
        THEN BuildRaised
        ELSE IF ShipRaises(FromStr(start, board_size), FromStr(end, board_size), TRUE)
        THEN BuildRaised
        ELSE Built(NewShip(FromStr(start, board_size), FromStr(end, board_size)))

BuildShipMutant(length, x_start, y_start, horizontal, board_size) ==
    IF horizontal
    THEN CreateShipFromStr(ToStr(<<x_start, y_start>>),
                           ToStr(<<x_start + 1 - length, y_start>>))
    ELSE CreateShipFromStr(ToStr(<<x_start, y_start>>),
                           ToStr(<<x_start, y_start - 1 + length>>))

BuildShipOffByOne(length, x_start, y_start, horizontal, board_size) ==
    LET min_valid_x == 1
        max_valid_y == board_size[2]
        cell_start == ToStr(<<x_start, y_start>>)
    IN  IF horizontal
        THEN LET left == x_start - length
                 x_end == IF left < min_valid_x THEN x_start + length ELSE left
             IN  CreateShipFromStr(cell_start, ToStr(<<x_end, y_start>>))
        ELSE LET down == y_start + length
                 y_end == IF down > max_valid_y THEN y_start - length ELSE down
             IN  CreateShipFromStr(cell_start, ToStr(<<x_start, y_end>>))

\* build_ship(length), with the random anchor and the random direction
\* (rand_dir < 0.5 is `horizontal`) as inputs.
BuildShip(length, x_start, y_start, horizontal, board_size) ==
    LET min_valid_x == 1
        max_valid_y == board_size[2]
        cell_start == ToStr(<<x_start, y_start>>)
    IN  IF horizontal
        THEN LET left == x_start + 1 - length
                 x_end == IF left < min_valid_x THEN x_start - 1 + length ELSE left
             IN  CreateShipFromStr(cell_start, ToStr(<<x_end, y_start>>))
        ELSE LET down == y_start - 1 + length
                 y_end == IF down > max_valid_y THEN y_start + 1 - length ELSE down
             IN  CreateShipFromStr(cell_start, ToStr(<<x_start, y_end>>))

\* The lengths generate_ships builds, in order: each length of the
\* configuration as many times as its count.
RECURSIVE ShipsToBuild(_)
ShipsToBuild(ships_per_length) ==
    IF ships_per_length = <<>>
    THEN <<>>
    ELSE [k \in 1..Head(ships_per_length)[2] |-> Head(ships_per_length)[1]]
            \o ShipsToBuild(Tail(ships_per_length))

\* A check that only notices a candidate lying on top of another ship.
AnyNearMutant(s, ships) == \E k \in 1..Len(ships) : s.cells \cap ships[k].cells # {}

\* any(ship.is_near_ship(other_ship) for other_ship in ships)
AnyNear(s, ships) == \E k \in 1..Len(ships) : IsNearShip(s, ships[k])

FactoryFrame == UNCHANGED <<args, board, tracker, moves, attack_successful,
                            ship_being_attacked, history>>

GenRaise ==
    /\ pc' = "gen_raised"
    /\ call' = Raised("generate_ships", <<>>, "ValueError")
    /\ UNCHANGED <<ship, factory>>

\* The first build_ship for the next ship of the configuration; the very
\* first ship is appended at once, any other enters the retry loop.
GenBuild(x_start, y_start, horizontal) ==
    /\ pc = "gen_for"
    /\ factory.todo # <<>>
    /\ LET r == BuildShip(Head(factory.todo), x_start, y_start, horizontal, args.board_size)
       IN  IF r.raised
           THEN GenRaise
           ELSE /\ ship' = r.ship
                /\ IF Len(factory.ships) = 0
                   THEN /\ factory' = [factory EXCEPT !.ships = Append(@, r.ship),
                                                      !.todo = Tail(@),
                                                      !.built = 1]
                        /\ pc' = "gen_for"
                   ELSE /\ factory' = [factory EXCEPT !.i = 1, !.built = 1]
                        /\ pc' = "gen_while"
                /\ UNCHANGED call
    /\ FactoryFrame

\* An iteration of the retry loop that finds the ship near another: rebuild.
GenRetry(x_start, y_start, horizontal) ==
    /\ pc = "gen_while"
    /\ factory.i < RetryCeiling
    /\ AnyNear(ship, factory.ships)
    /\ LET r == BuildShip(Head(factory.todo), x_start, y_start, horizontal, args.board_size)
       IN  IF r.raised
           THEN GenRaise
           ELSE /\ ship' = r.ship
                /\ factory' = [factory EXCEPT !.i = @ + 1, !.built = @ + 1]
                /\ UNCHANGED <<pc, call>>
    /\ FactoryFrame

\* An iteration of the retry loop that finds the ship near no other.
GenKeep ==
    /\ pc = "gen_while"
    /\ factory.i < RetryCeiling
    /\ ~AnyNear(ship, factory.ships)
    /\ factory' = [factory EXCEPT !.i = @ + 1]
    /\ UNCHANGED <<pc, ship, call>>
    /\ FactoryFrame

\* The retry loop is over: the ship is appended, whatever it is near.
GenAppend ==
    /\ pc = "gen_while"
    /\ ~(factory.i < RetryCeiling)
    /\ factory' = [factory EXCEPT !.ships = Append(@, ship), !.todo = Tail(@)]
    /\ pc' = "gen_for"
    /\ UNCHANGED <<ship, call>>
    /\ FactoryFrame

GenReturn ==
    /\ pc = "gen_for"
    /\ factory.todo = <<>>
    /\ pc' = "gen_done"
    /\ call' = Returned("generate_ships", <<>>, factory.ships)
    /\ UNCHANGED <<ship, factory>>
    /\ FactoryFrame

(***************************************************************************)
(* SpecFactory: generate_ships on a FactoryN by FactoryN board, for the    *)
(* default configuration (one ship of each length) and for configurations  *)
(* of one length, up to two longer than the default's longest, asked for   *)
(* zero, one or two times.                                                 *)
(***************************************************************************)
DefaultShipsPerLength == [length \in 1..FactoryMaxLen |-> <<length, 1>>]

Configurations ==
    {DefaultShipsPerLength}
        \cup {<<<<length, count>>>> : length \in 1..(FactoryMaxLen + 2), count \in 0..2}

InitFactory ==
    /\ pc = "gen_for"
    /\ \E ships_per_length \in Configurations :
        /\ args = [board_size |-> <<FactoryN, FactoryN>>,
                   ships_per_length |-> ships_per_length]
        /\ factory = [ships |-> <<>>, todo |-> ShipsToBuild(ships_per_length),
                      i |-> 0, built |-> 0]
    /\ ship = NoShip
    /\ board = NoBoard
    /\ tracker = {}
    /\ moves = <<>>
    /\ attack_successful = FALSE
    /\ ship_being_attacked = <<>>
    /\ call = Returned("ShipFactory", <<>>, FALSE)
    /\ history = NoHistory

NextFactory ==
    \/ \E x_start \in 1..args.board_size[1], y_start \in 1..args.board_size[2],
          horizontal \in BOOLEAN : GenBuild(x_start, y_start, horizontal)
    \/ \E x_start \in 1..args.board_size[1], y_start \in 1..args.board_size[2],
          horizontal \in BOOLEAN : GenRetry(x_start, y_start, horizontal)
    \/ GenKeep
    \/ GenAppend
    \/ GenReturn

SpecFactory == InitFactory /\ [][NextFactory]_vars

IsDefaultConfiguration == args.ships_per_length = DefaultShipsPerLength

\* C11: for the default configuration generate_ships always returns, and
\* what it returns is one ship of each length of the configuration, in the
\* configuration's order, all of whose cells lie on the factory's board.
C11_DefaultFleetShape ==
    IsDefaultConfiguration =>
        /\ pc # "gen_raised"
        /\ \A k \in 1..Len(factory.ships) :
            /\ Length(factory.ships[k]) = PyInt(k)
            /\ Cardinality(factory.ships[k].cells) = k
            /\ factory.ships[k].cells \subseteq Grid(FactoryN, FactoryN)
        /\ pc = "gen_done" =>
            /\ call.ret = factory.ships
            /\ Len(call.ret) = FactoryMaxLen

\* C11's case: the default fleet has been returned after the retry loop ran
\* to its ceiling for the last ship.
C11_Witness ==
    /\ IsDefaultConfiguration
    /\ pc = "gen_done"
    /\ factory.i = RetryCeiling
    /\ Len(call.ret) = FactoryMaxLen

\* C12: for the default configuration no ship generate_ships returns
\* is_near_ship any other ship it returns.
C12_DefaultFleetNonNear ==
    (IsDefaultConfiguration /\ pc = "gen_done") =>
        \A j, k \in 1..Len(call.ret) :
            j # k => ~IsNearShip(call.ret[j], call.ret[k])

\* C13: generate_ships never fails, whatever the configuration: it builds at
\* most RetryCeiling candidates for each ship and returns as many ships as
\* the configuration's counts add up to.
C13_ReturnsEveryShip ==
    /\ pc # "gen_raised"
    /\ factory.built <= RetryCeiling
    /\ pc = "gen_done" => Len(call.ret) = Len(ShipsToBuild(args.ships_per_length))

(***************************************************************************)
(* SpecScript: an AutomaticPlayer on a ScriptN by ScriptN board that is    *)
(* told any result, true or not, after every target.                       *)
(***************************************************************************)
ScriptGrid == Grid(ScriptN, ScriptN)

InitScript ==
    /\ pc = "select"
    /\ args = [width |-> ScriptN, height |-> ScriptN]
    /\ ship = NoShip
    /\ board = NoBoard
    /\ tracker = {}
    /\ moves = <<>>
    /\ attack_successful = FALSE
    /\ ship_being_attacked = <<>>
    /\ call = Returned("AutomaticPlayer", <<>>, FALSE)
    /\ history = NoHistory
    /\ factory = NoFactory

\* The caller reports any outcome for the cell just returned.
ScriptedResult(is_ship_hit, has_ship_sunk) ==
    /\ pc = "result"
    /\ ReceiveResult(is_ship_hit, has_ship_sunk)
    /\ pc' = "select"
    /\ UNCHANGED board

NextScript ==
    \/ \E random_cell \in GetRandomCoordinates(args.width, args.height) :
            SearchSampleAgain(random_cell)
    \/ \E random_cell \in GetRandomCoordinates(args.width, args.height) :
            SelectSearch(random_cell)
    \/ SelectProbe
    \/ SelectTrack
    \/ \E is_ship_hit \in BOOLEAN, has_ship_sunk \in BOOLEAN :
            ScriptedResult(is_ship_hit, has_ship_sunk)

SpecScript == InitScript /\ [][NextScript]_vars

\* The four cells at distance 1 from `cell` along one axis.
OrthogonalNeighbours(cell) ==
    {<<cell[1] - 1, cell[2]>>, <<cell[1] + 1, cell[2]>>,
     <<cell[1], cell[2] - 1>>, <<cell[1], cell[2] + 1>>}

\* Those of them that are on the board and not in the tracker `trk`.
FreeNeighbours(cell, trk) == (OrthogonalNeighbours(cell) \cap ScriptGrid) \ trk

\* C14: with exactly one recorded hit and at least one orthogonal neighbour
\* of it on the board and untracked, select_target returns one of exactly
\* those neighbours, and each of them is a possible result.
C14_ProbeTargetsNeighbour ==
    /\ (/\ call.op = "select_target"
        /\ pc = "result"
        /\ Len(ship_being_attacked) = 1
        /\ FreeNeighbours(ship_being_attacked[1], call.arg) # {})
            => call.ret \in FreeNeighbours(ship_being_attacked[1], call.arg)
    /\ (/\ pc = "select"
        /\ Len(ship_being_attacked) = 1
        /\ Len(moves) < MoveCap)
            => \A cell \in FreeNeighbours(ship_being_attacked[1], tracker) :
                    ENABLED (SelectProbe /\ call'.ret = cell)

\* C14's case: select_target has returned a neighbour of the only recorded
\* hit when another neighbour was free as well.
C14_Witness ==
    /\ call.op = "select_target"
    /\ pc = "result"
    /\ Len(ship_being_attacked) = 1
    /\ Cardinality(FreeNeighbours(ship_being_attacked[1], call.arg)) >= 2
    /\ call.ret \in FreeNeighbours(ship_being_attacked[1], call.arg)

Neighbours8(cell) ==
    {<<cell[1] + dx, cell[2] + dy>> : dx \in -1..1, dy \in -1..1} \ {cell}

\* C16: a receive_result whose has_ship_sunk is true leaves in tracker every
\* cell of the board among the eight neighbours of every recorded hit (the
\* hit just reported included), adds no cell outside the board, and empties
\* ship_being_attacked; the select_target that follows returns a cell of the
\* board that was not tracked.
C16_SunkMarksSurroundings ==
    [][/\ (call'.op = "receive_result" /\ pc = "result" /\ call'.arg[2]) =>
            LET hits == IF call'.arg[1]
                        THEN Range(ship_being_attacked) \cup {Last(moves)}
                        ELSE Range(ship_being_attacked)
            IN  /\ \A hit \in hits : (Neighbours8(hit) \cap GameGrid) \subseteq tracker'
                /\ tracker \subseteq tracker'
                /\ (tracker' \ tracker) \subseteq GameGrid
                /\ ship_being_attacked' = <<>>
       /\ (call.op = "receive_result" /\ call.arg[2] /\ call'.op = "select_target") =>
            /\ call'.exc = ""
            /\ call'.ret \in GameGrid \ tracker
      ]_vars

\* C16's case: the previous target sank a ship of two or more cells, the
\* cells around it have gone into tracker, and select_target has returned
\* again.
C16_Witness ==
    /\ call.op = "select_target"
    /\ pc = "result"
    /\ ship_being_attacked = <<>>
    /\ Len(moves) >= 3
    /\ \E k \in 1..Len(board.ships) :
            /\ HasSunk(board.ships[k])
            /\ Cardinality(board.ships[k].cells) >= 2
            /\ moves[Len(moves) - 1] \in board.ships[k].cells
    /\ Cardinality(tracker) > Len(moves)

\* C17: with exactly one recorded hit whose four orthogonal neighbours are
\* all tracked or off the board, select_target does not fail: it returns a
\* cell of the board that was not tracked.
C17_ProbeFallsBackToSearch ==
    (/\ call.op = "select_target"
     /\ Len(ship_being_attacked) = 1
     /\ FreeNeighbours(ship_being_attacked[1], call.arg) = {})
        => /\ call.exc = ""
           /\ call.ret \in ScriptGrid \ call.arg

\* C18: with two or more recorded hits, whatever the tracker and the results
\* so far, the cell select_target returns is on the board and was not
\* tracked.
C18_TrackTargetIsFresh ==
    (/\ call.op = "select_target"
     /\ pc = "result"
     /\ Len(ship_being_attacked) >= 2)
        => /\ call.ret \in ScriptGrid
           /\ call.ret \notin call.arg

\* C20: receive_result(is_hit, is_sunk) sets attack_successful to is_hit,
\* appends the last target to ship_being_attacked on a hit and then empties
\* the list if is_sunk; a miss that does not sink leaves the list alone; no
\* other operation changes either, so an empty list gets its first cell
\* exactly on a hit that does not sink.
C20_ReceiveResultDrivesHunt ==
    [][/\ IF pc = "result" /\ call'.op = "receive_result"
          THEN /\ attack_successful' = call'.arg[1]
               /\ ship_being_attacked' =
                    IF call'.arg[2] THEN <<>>
                    ELSE IF call'.arg[1] THEN Append(ship_being_attacked, Last(moves))
                    ELSE ship_being_attacked
          ELSE UNCHANGED <<attack_successful, ship_being_attacked>>
       /\ Len(ship_being_attacked) = 0 =>
            (Len(ship_being_attacked') = 1 <=>
                (/\ pc = "result"
                 /\ call'.op = "receive_result"
                 /\ call'.arg[1]
                 /\ ~call'.arg[2]))
      ]_vars

\* C20's case: after three targets or more, a hit that sank has emptied the
\* list.
C20_Witness ==
    /\ call.op = "receive_result"
    /\ call.arg = <<TRUE, TRUE>>
    /\ ship_being_attacked = <<>>
    /\ attack_successful
    /\ Len(moves) >= 3

(***************************************************************************)
(* SpecHunt: an AutomaticPlayer attacks a HuntN by HuntN board that holds  *)
(* one ship long enough to be tracked, and is told the truth after every   *)
(* target.                                                                 *)
(***************************************************************************)
HuntGrid == Grid(HuntN, HuntN)

HuntShips == {s \in ShipsOn(HuntGrid) : Cardinality(s.cells) >= HuntMinLength}

InitHunt ==
    /\ \E s \in HuntShips : board = NewBoard(<<s>>, HuntN, HuntN)
    /\ pc = "select"
    /\ args = [width |-> HuntN, height |-> HuntN]
    /\ ship = NoShip
    /\ tracker = {}
    /\ moves = <<>>
    /\ attack_successful = FALSE
    /\ ship_being_attacked = <<>>
    /\ call = Returned("AutomaticPlayer", <<>>, FALSE)
    /\ history = NoHistory
    /\ factory = NoFactory

SpecHunt == InitHunt /\ [][NextAuto]_vars

\* The axis of the recorded hits: the coordinate that varies along it.
Along(hits) == IF hits[1][1] = hits[2][1] THEN 2 ELSE 1

\* +1 or -1: the side of the earlier hits on which the most recent hit lies.
Away(hits) ==
    IF Last(hits)[Along(hits)] > hits[Len(hits) - 1][Along(hits)] THEN 1 ELSE -1

\* The cell `steps` steps from `cell` along the axis of the hits.
Step(cell, hits, steps) ==
    IF Along(hits) = 1 THEN <<cell[1] + steps, cell[2]>> ELSE <<cell[1], cell[2] + steps>>

\* The cells targeted before the last target that belong to no ship.
Misses ==
    {moves[k] : k \in 1..(Len(moves) - 1)}
        \ UNION {board.ships[k].cells : k \in 1..Len(board.ships)}

\* C19: with two or more hits recorded against a valid board, the target is
\* the cell one step beyond the most recent hit, away from the earlier hits,
\* when that cell is on the board and untracked; when that cell is off the
\* board or was a miss, the target is the cell one step beyond the first
\* recorded hit on the other side.
C19_TrackExtendsThenReverses ==
    (/\ call.op = "select_target"
     /\ pc = "result"
     /\ Len(ship_being_attacked) >= 2)
        => LET hits == ship_being_attacked
               beyond == Step(Last(hits), hits, Away(hits))
               grid == Grid(board.width, board.height)
           IN  /\ (beyond \in grid /\ beyond \notin call.arg) => call.ret = beyond
               /\ (beyond \notin grid \/ beyond \in Misses) =>
                        call.ret = Step(hits[1], hits, -Away(hits))

\* C19's case: the cell beyond the most recent hit was a miss and the target
\* returned is the cell on the other side of the first hit.
C19_Witness ==
    /\ call.op = "select_target"
    /\ pc = "result"
    /\ Len(ship_being_attacked) >= 2
    /\ Step(Last(ship_being_attacked), ship_being_attacked, Away(ship_being_attacked))
            \in Misses
    /\ call.ret = Step(ship_being_attacked[1], ship_being_attacked,
                       -Away(ship_being_attacked))
    /\ ValidBoard(board)

\* C21: a select_target that returns appends exactly the returned cell to
\* the end of moves and adds it to tracker, and leaves ship_being_attacked
\* alone; receive_result leaves moves alone and removes nothing from
\* tracker; neither changes a board.
C21_MovesAndTrackerOnlyGrow ==
    [][/\ (pc = "select" /\ pc' = "result") =>
            /\ call'.op = "select_target"
            /\ moves' = Append(moves, call'.ret)
            /\ tracker' = tracker \cup {call'.ret}
            /\ UNCHANGED <<ship_being_attacked, attack_successful, board, args>>
       /\ (pc = "select" /\ pc' = "raised") =>
            UNCHANGED <<moves, tracker, ship_being_attacked, attack_successful, board, args>>
       /\ pc = "result" =>
            /\ call'.op = "receive_result"
            /\ moves' = moves
            /\ tracker \subseteq tracker'
            /\ UNCHANGED <<board, args>>
      ]_vars

\* C21's case: after two targets or more, a receive_result has added cells
\* to tracker that were never targeted.
C21_Witness ==
    /\ call.op = "receive_result"
    /\ Len(moves) >= 2
    /\ Cardinality(tracker) > Len(moves)
    /\ Range(moves) \subseteq tracker

(***************************************************************************)
(* SpecBuild: one call of build_ship(length) by a ShipFactory for a board  *)
(* of any size up to BuildSide by BuildSide, for any length up to          *)
(* MaxShipLength, any anchor of the board and either direction.            *)
(***************************************************************************)
InitBuild ==
    /\ pc = "build"
    /\ \E w \in 1..BuildSide, h \in 1..BuildSide :
        \E x_start \in 1..w, y_start \in 1..h :
            args \in [board_size : {<<w, h>>}, length : 1..MaxShipLength,
                      x_start : {x_start}, y_start : {y_start}, horizontal : BOOLEAN]
    /\ ship = NoShip
    /\ board = NoBoard
    /\ tracker = {}
    /\ moves = <<>>
    /\ attack_successful = FALSE
    /\ ship_being_attacked = <<>>
    /\ call = Returned("ShipFactory", <<>>, FALSE)
    /\ history = NoHistory
    /\ factory = NoFactory

DoBuildShip ==
    /\ pc = "build"
    /\ LET r == BuildShip(args.length, args.x_start, args.y_start, args.horizontal,
                          args.board_size)
       IN  IF r.raised
           THEN /\ pc' = "build_raised"
                /\ call' = Raised("build_ship", <<>>, "ValueError")
                /\ UNCHANGED ship
           ELSE /\ pc' = "built"
                /\ call' = Returned("build_ship", <<>>, r.ship)
                /\ ship' = r.ship
    /\ UNCHANGED <<args, board, tracker, moves, attack_successful, ship_being_attacked,
                   history, factory>>

NextBuild == DoBuildShip

SpecBuild == InitBuild /\ [][NextBuild]_vars

\* The ship of `length` cells that starts at the anchor and runs left (or
\* down), or the other way when that would leave the board.
ExpectedCells ==
    LET x == args.x_start
        y == args.y_start
        n == args.length
    IN  IF args.horizontal
        THEN IF x + 1 - n >= 1
             THEN {<<c, y>> : c \in (x + 1 - n)..x}
             ELSE {<<c, y>> : c \in x..(x - 1 + n)}
        ELSE IF y - 1 + n <= args.board_size[2]
             THEN {<<x, c>> : c \in y..(y - 1 + n)}
             ELSE {<<x, c>> : c \in (y + 1 - n)..y}

\* What C22 says of a finished call: it returned a ship of exactly `length`
\* cells, on the board, with the anchor at one end, in the default direction
\* or, when that leaves the board, the opposite one.
BuildShipAsClaimed ==
    /\ pc = "built"
    /\ Cardinality(ship.cells) = args.length
    /\ ship.cells \subseteq Grid(args.board_size[1], args.board_size[2])
    /\ \/ <<args.x_start, args.y_start>> = <<ship.x_start, ship.y_start>>
       \/ <<args.x_start, args.y_start>> = <<ship.x_end, ship.y_end>>
    /\ ship.cells = ExpectedCells

MinSide == Min2(args.board_size[1], args.board_size[2])

AxisExtent == IF args.horizontal THEN args.board_size[1] ELSE args.board_size[2]

CandidateIsNear == \E k \in 1..Len(factory.ships) : IsNearShip(ship, factory.ships[k])

\* C23: within the retry loop for one ship, once the candidate at hand is
\* not near any accepted ship no further candidate is built (a candidate is
\* replaced only when it is near) and it is the one appended; the ship
\* that is appended is near an accepted ship only when it is candidate
\* number RetryCeiling, every candidate before it having been replaced for
\* being near.
C23_FirstNonNearIsAppended ==
    [][/\ (pc = "gen_while" /\ ~CandidateIsNear) =>
            /\ ship' = ship
            /\ factory'.built = factory.built
            /\ pc' \in {"gen_while", "gen_for"}
            /\ factory'.ships \in {factory.ships, Append(factory.ships, ship)}
       /\ (pc = "gen_while" /\ factory'.built # factory.built) =>
            /\ CandidateIsNear
            /\ factory'.built = factory.built + 1
            /\ factory'.ships = factory.ships
       /\ (pc = "gen_while" /\ pc' = "gen_for") =>
            /\ factory'.ships = Append(factory.ships, ship)
            /\ CandidateIsNear => factory.built = RetryCeiling
      ]_vars

\* C23's case: the first candidate for the second ship was near the first
\* ship, the second candidate was not, the loop ran on to its ceiling
\* without building again and that second candidate was appended.
C23_Witness ==
    /\ pc = "gen_for"
    /\ Len(factory.ships) = 2
    /\ factory.built = 2
    /\ factory.i = RetryCeiling
    /\ factory.ships[2] = ship
    /\ ~IsNearShip(factory.ships[2], factory.ships[1])

(***************************************************************************)
(* SpecRandomFair: SpecRandom with fair sampling.  random.randint draws    *)
(* every cell of the board with the same positive probability at every     *)
(* iteration, so a loop that can sample an untracked cell does not go on   *)
(* sampling tracked ones for ever.                                         *)
(***************************************************************************)
RandomReturns ==
    \E random_cell \in GetRandomCoordinates(args.width, args.height) :
        RandomSelectTarget(random_cell)

RandomLoops ==
    \E random_cell \in GetRandomCoordinates(args.width, args.height) :
        RandomSampleAgain(random_cell)

SpecRandomFair == InitRandom /\ [][NextRandom]_vars /\ WF_vars(RandomReturns)

RandomBoardExhausted == tracker = Grid(RandWidth, RandHeight)

\* C24: while some cell of the board is untracked the next select_target
\* eventually returns (the count of returned calls goes up by one); once
\* every cell is tracked the sampling loop can still go round but no step
\* returns or raises: nothing changes any more.
C24_RandomReturnsUntilExhausted ==
    /\ \A n \in 0..(RandWidth * RandHeight - 1) :
            (history.n = n /\ ~RandomBoardExhausted) ~> (history.n = n + 1)
    /\ [](RandomBoardExhausted => (ENABLED RandomLoops /\ ~ENABLED RandomReturns))
    /\ [][~RandomBoardExhausted]_vars

\* C24's case: select_target has returned every cell of the board and the
\* next call is sampling.
C24_Witness ==
    /\ RandomBoardExhausted
    /\ call.op = "select_target"
    /\ Cardinality(tracker) = RandWidth * RandHeight
    /\ \A random_cell \in GetRandomCoordinates(args.width, args.height) :
            HasBeenAttacked(random_cell, tracker)

\* C27: whatever cells receive_damage is called with, the damaged cells are
\* always among the occupied cells and no call of any method takes a cell
\* out of them (nor changes the occupied cells); a call with a cell the
\* ship does not occupy returns False and leaves the damaged cells as they
\* were; and a ship for which has_sunk() is true is still sunk after every
\* further call.
C27_DamageOnlyGrowsWithinShip ==
    /\ [](pc = "ship" => ship.damaged_cells \subseteq ship.cells)
    /\ [][/\ ship.damaged_cells \subseteq ship'.damaged_cells
          /\ ship'.cells = ship.cells
          /\ (call'.op = "receive_damage" /\ ~IsOccupyingCell(ship, call'.arg)) =>
               /\ call'.ret = FALSE
               /\ ship'.damaged_cells = ship.damaged_cells
          /\ HasSunk(ship) => HasSunk(ship')
      ]_vars

\* C27's case: a ship of several cells has sunk, and a later receive_damage
\* at a cell it does not occupy has returned False and left it sunk.
C27_Witness ==
    /\ pc = "ship"
    /\ call.op = "receive_damage"
    /\ ~IsOccupyingCell(ship, call.arg)
    /\ call.ret = FALSE
    /\ CountDamagedCells(ship) >= 2
    /\ ship.damaged_cells = ship.cells
    /\ HasSunk(ship)

\* The ship has been hit and has not sunk.
PartiallyDamaged(s) == s.damaged_cells # {} /\ ~HasSunk(s)

\* The targets that fell on the ship, in the order they were returned.
HitsOn(s) ==
    LET OnShip(cell) == IsOccupyingCell(s, cell)
    IN  SelectSeq(moves, OnShip)

\* select_target's Search branch can return some cell.
SearchCanReturn ==
    \E random_cell \in GetRandomCoordinates(args.width, args.height) :
        SelectSearch(random_cell)

\* C26: between turns of a game against a valid board with truthful
\* results, at most one ship of the board is partially damaged;
\* ship_being_attacked is that ship's damaged cells in the order they were
\* hit, and is empty when no ship is partially damaged; every tracked cell
\* of an unsunk ship is in ship_being_attacked; and while a ship is
\* partially damaged select_target cannot return a Search target.
C26_OneShipUnderAttack ==
    pc = "select" =>
        /\ \A i, j \in 1..Len(board.ships) :
                (PartiallyDamaged(board.ships[i]) /\ PartiallyDamaged(board.ships[j]))
                    => i = j
        /\ \A i \in 1..Len(board.ships) :
                PartiallyDamaged(board.ships[i]) =>
                    /\ ship_being_attacked = HitsOn(board.ships[i])
                    /\ Range(ship_being_attacked) = board.ships[i].damaged_cells
                    /\ NoRepeats(ship_being_attacked)
                    /\ ~ENABLED SearchCanReturn
        /\ (\A i \in 1..Len(board.ships) : ~PartiallyDamaged(board.ships[i]))
                => ship_being_attacked = <<>>
        /\ \A i \in 1..Len(board.ships) :
                ~HasSunk(board.ships[i]) =>
                    board.ships[i].cells \cap tracker \subseteq Range(ship_being_attacked)

\* C26's case: one ship has sunk and, after it, two cells of another ship
\* of three cells have been hit.
C26_Witness ==
    /\ pc = "select"
    /\ \E i, j \in 1..Len(board.ships) :
            /\ HasSunk(board.ships[i])
            /\ PartiallyDamaged(board.ships[j])
            /\ Cardinality(board.ships[j].damaged_cells) = 2
    /\ Len(ship_being_attacked) = 2
    /\ attack_successful

(***************************************************************************)
(* SpecMatch: an AutomaticPlayer plays a whole match against a valid MatchN *)
(* by MatchN board of MatchShips ships of MatchMinLength cells or more: the *)
(* match goes on, a target and its truthful result at a time, until every   *)
(* ship of the board has sunk.                                              *)
(* SpecMatchFair adds fair sampling (random.randint draws every cell with   *)
(* positive probability, so Search does not sample tracked cells for ever)  *)
(* and the progress of the match loop itself.                               *)
(***************************************************************************)
MatchGrid == Grid(MatchN, MatchN)

MatchShips == (MatchN + 1) \div 2

MatchMinLength == MatchN

MatchShipsOn == {s \in ShipsOn(MatchGrid) : Cardinality(s.cells) >= MatchMinLength}

InitMatch ==
    /\ \E ships \in [1..MatchShips -> MatchShipsOn] :
            /\ ~BoardRaises(ships, MatchN, MatchN)
            /\ board = NewBoard(ships, MatchN, MatchN)
    /\ pc = "select"
    /\ args = [width |-> MatchN, height |-> MatchN, targets |-> MatchN * MatchN + 1]
    /\ ship = NoShip
    /\ tracker = {}
    /\ moves = <<>>
    /\ attack_successful = FALSE
    /\ ship_being_attacked = <<>>
    /\ call = Returned("AutomaticPlayer", <<>>, FALSE)
    /\ history = NoHistory
    /\ factory = NoFactory

\* The opponent has lost: the match is over.
MatchOver == HasLost(board)

\* One more iteration of Search's sampling loop.
MatchSampleAgain ==
    /\ ~MatchOver
    /\ \E random_cell \in GetRandomCoordinates(args.width, args.height) :
            SearchSampleAgain(random_cell)

\* select_target returns or raises, in whichever of its branches.
MatchSelect ==
    /\ ~MatchOver
    /\ \/ SearchCanReturn
       \/ SelectProbe
       \/ SelectTrack

NextMatch ==
    \/ MatchSampleAgain
    \/ MatchSelect
    \/ Feedback

SpecMatch == InitMatch /\ [][NextMatch]_vars

SpecMatchFair == SpecMatch /\ WF_vars(MatchSelect) /\ WF_vars(Feedback)

\* C25: in a match against a valid square board with truthful results,
\* whenever select_target is called in Search with some ship unsunk an
\* untracked cell is left for it to return; every select_target returns
\* and none raises; no more than width*height targets are ever returned;
\* and every ship of the board does sink.
C25_MatchEndsWithAllSunk ==
    /\ [](pc # "raised")
    /\ []((pc = "select" /\ ~MatchOver /\ ship_being_attacked = <<>>) =>
            /\ MatchGrid \ tracker # {}
            /\ ENABLED SearchCanReturn)
    /\ [](Len(moves) <= MatchN * MatchN)
    /\ (pc = "select" /\ ~MatchOver) ~> (pc = "result")
    /\ <>[](MatchOver /\ pc = "select")

\* C25's case: the match is over, the last ship having sunk after an
\* earlier one did and after Search had come back to it past a miss.
C25_Witness ==
    /\ MatchOver
    /\ pc = "select"
    /\ Len(board.ships) >= 2
    /\ Len(moves) > Cardinality(UNION {board.ships[i].cells : i \in 1..Len(board.ships)})
    /\ call.op = "receive_result"
    /\ call.arg = <<TRUE, TRUE>>
====
